---------------------------- MODULE Spec2Model ----------------------------
(***************************************************************************)
(* TranslateApp_v1.py: the chunked, retrying translation of one text       *)
(* (safe_translate) and the batch loop of main() that applies it to every  *)
(* cell of the selected columns of an uploaded table.                      *)
(*                                                                         *)
(* Text is a sequence of characters, each character a one-symbol string.   *)
(* The four CJK characters of the failure tag cannot be written in a       *)
(* module, so each is written as one romanised symbol: "HON" "YAKU"        *)
(* "SHITSU" "PAI" stand for the four characters that follow "[" in the     *)
(* source literal.  Durations are in tenths of a second.                   *)
(***************************************************************************)
EXTENDS Integers, Sequences, FiniteSets, TLC

(***************************************************************************)
(* Bounds of the model.                                                    *)
(***************************************************************************)
\* Segment length.  The source sets max_len = 4500 (line 26); the model
\* scales it down so that multi-segment texts stay small.
max_len == 8
\* The largest retries argument tried when safe_translate is checked alone.
MaxRetries == 3
\* The largest number of rows of the uploaded table.
MaxRows == 2

(***************************************************************************)
(* Program constants.                                                      *)
(***************************************************************************)
\* retries: int = 3
DefaultRetries == 3
\* delay: float = 1.0
DefaultDelay == 10

(***************************************************************************)
(* Strings.                                                                *)
(***************************************************************************)
Min(a, b) == IF a < b THEN a ELSE b

\* Python text[start:stop] for 0 <= start.
Slice(s, start, stop) == SubSeq(s, start + 1, Min(stop, Len(s)))

\* Fault: the slice is one character short, text[start:start + max_len - 1].
SegmentShort(s, start) == Slice(s, start, start + max_len - 1)

\* segment = text[start:start + max_len]
Segment(s, start) == Slice(s, start, start + max_len)

\* The prefix main() looks for: "[" and the four characters of the tag.
FailPrefix == <<"[", "HON", "YAKU", "SHITSU", "PAI">>

\* result.startswith(prefix)
StartsWith(s, p) == Len(s) >= Len(p) /\ SubSeq(s, 1, Len(p)) = p

\* f"[<tag>: {e}]"
FailMarker(e) == FailPrefix \o <<":", " ">> \o e \o <<"]">>

(***************************************************************************)
(* The translation provider (googletrans Translator.translate), an         *)
(* external service: each call either returns a text or raises.            *)
(***************************************************************************)
UpperChar(c) ==
    CASE c = "a" -> "A" [] c = "b" -> "B" [] c = "c" -> "C"
      [] c = "d" -> "D" [] c = "e" -> "E" [] c = "n" -> "N"
      [] OTHER -> c

Upper(s) == [i \in 1..Len(s) |-> UpperChar(s[i])]

\* A genuine translation that happens to begin like a failure marker.
LookalikeText == FailPrefix \o <<"]">>

\* The texts a successful call may return for a segment: its upper-case
\* form and, for the one-letter text "a", also the lookalike.
ProviderTexts(seg) ==
    {Upper(seg)} \cup (IF seg = <<"a">> THEN {LookalikeText} ELSE {})

\* The exceptions a failing call may raise: two transport failures, both
\* with the message "timeout".
ProviderErrors ==
    {[cls |-> "ConnectTimeout", msg |-> <<"t", "i", "m", "e", "o", "u", "t">>],
     [cls |-> "ReadTimeout", msg |-> <<"t", "i", "m", "e", "o", "u", "t">>]}

\* The classes derived from Exception.
ExceptionClasses == {"ConnectTimeout", "ReadTimeout"}

(***************************************************************************)
(* State.                                                                  *)
(***************************************************************************)
VARIABLES
    \* main(): the widgets' values of this run of the script
    uploaded_file,          \* whether a file has been uploaded
    df,                     \* the loaded table (column -> cells), or NoDf
    df0,                    \* history: the table as it was loaded
    columns_to_translate,   \* the multiselect's value, in selection order
    sleep_time,             \* the number_input's value
    button,                 \* whether the start button was pressed
    \* main(): the batch loop
    mpc,                    \* where main() is
    notice,                 \* the last message main() showed
    ci,                     \* index of col in columns_to_translate
    cells,                  \* df[col].astype(str), the cells being iterated
    ri,                     \* index of cell in cells
    translations,
    total_tasks,
    current_task,
    error_count,
    progress,               \* the calls of progress.progress, as <<done, total>>
    item_sleeps,            \* the durations of main()'s time.sleep calls
    outcomes,               \* history: one record per translated cell
    \* safe_translate(): the arguments and locals of the call in progress
    pc,                     \* where safe_translate is
    text,
    retries,
    delay,
    start,
    attempt,
    translated,
    retval,                 \* the value returned
    segs,                   \* history: the segments taken so far
    segres,                 \* history: each finished segment's result
    log                     \* history: provider calls and sleeps, in order

mainvars == <<uploaded_file, df, df0, columns_to_translate, sleep_time, button, mpc,
              notice, ci, cells, ri, translations, total_tasks, current_task,
              error_count, progress, item_sleeps, outcomes>>
stvars == <<pc, text, retries, delay, start, attempt, translated, retval,
            segs, segres, log>>
vars == <<mainvars, stvars>>

(***************************************************************************)
(* safe_translate(translator, text, dest, retries, delay)                  *)
(***************************************************************************)
Event(ev, d) == [ev |-> ev, seg |-> Len(segs), d |-> d]

\* Where the for-attempt loop of a segment starts: range(retries) is empty
\* when retries <= 0, and the segment goes straight to its sleep.
SegmentEntry(r) == IF r > 0 THEN "try" ELSE "segsleep"

\* Fault: no test for the empty text, and the loop body runs before the
\* length is looked at.
CallNoGuard(t, r, d) ==
    /\ pc = "idle"
    /\ text' = t /\ retries' = r /\ delay' = d
    /\ start' = 0 /\ attempt' = 0 /\ translated' = <<>>
    /\ retval' = <<>> /\ segres' = <<>> /\ log' = <<>>
    /\ pc' = SegmentEntry(r) /\ segs' = <<Segment(t, 0)>>

\* The call: the empty-text return, or the first segment.
Call(t, r, d) ==
    /\ pc = "idle"
    /\ text' = t /\ retries' = r /\ delay' = d
    /\ start' = 0 /\ attempt' = 0 /\ translated' = <<>>
    /\ retval' = <<>> /\ segres' = <<>> /\ log' = <<>>
    /\ IF t = <<>>
       THEN pc' = "ret" /\ segs' = <<>>
       ELSE pc' = SegmentEntry(r) /\ segs' = <<Segment(t, 0)>>

\* Fault: translated = part + translated.
AccumulatePrepend(acc, part) == part \o acc

\* translated += part
Accumulate(acc, part) == acc \o part

\* A finished segment: its result and where its piece lies in translated.
Result(kind, txt, piece) ==
    [kind |-> kind, text |-> txt, from |-> Len(translated),
     to |-> Len(translated) + Len(piece)]

\* Fault: no break after a success; the loop goes on to the next attempt.
AttemptOkNoBreak ==
    /\ pc = "try"
    /\ \E part \in ProviderTexts(segs[Len(segs)]) :
          /\ translated' = Accumulate(translated, part)
          /\ segres' = Append(segres, Result("Translated", part, part))
    /\ log' = Append(log, Event("call_ok", 0))
    /\ attempt' = attempt + 1
    /\ pc' = IF attempt + 1 < retries THEN "try" ELSE "segsleep"
    /\ UNCHANGED <<text, retries, delay, start, retval, segs>>
    /\ UNCHANGED mainvars

\* An attempt that succeeds: the part is appended and the loop is left.
AttemptOk ==
    /\ pc = "try"
    /\ \E part \in ProviderTexts(segs[Len(segs)]) :
          /\ translated' = Accumulate(translated, part)
          /\ segres' = Append(segres, Result("Translated", part, part))
    /\ log' = Append(log, Event("call_ok", 0))
    /\ pc' = "segsleep"
    /\ UNCHANGED <<text, retries, delay, start, attempt, retval, segs>>
    /\ UNCHANGED mainvars

\* Fault: a narrower clause, except ConnectTimeout as e.
CaughtNarrow(e) == e.cls = "ConnectTimeout"

\* except Exception as e
Caught(e) == e.cls \in ExceptionClasses

\* Fault: attempt < retries, so the last failure sleeps and adds no marker.
AttemptsRemainOff(a, r) == a < r

\* attempt < retries - 1
AttemptsRemain(a, r) == a < r - 1

\* An exception no clause catches leaves safe_translate, and main() with it.
Propagate ==
    /\ pc' = "raised"
    /\ mpc' = IF mpc = "call" THEN "crashed" ELSE mpc
    /\ log' = Append(log, Event("call_err", 0))
    /\ UNCHANGED <<text, retries, delay, start, attempt, translated, retval,
                   segs, segres>>
    /\ UNCHANGED <<uploaded_file, df, df0, columns_to_translate, sleep_time,
                   button, notice, ci, cells, ri, translations, total_tasks,
                   current_task, error_count, progress, item_sleeps, outcomes>>

\* Fault: the loops are nested the wrong way round, so a failed attempt
\* moves on to the next segment while this one still has attempts left.
RetrySkipsAhead ==
    /\ log' = log \o <<Event("call_err", 0), Event("retry_sleep", delay)>>
    /\ IF start + max_len < Len(text)
       THEN /\ start' = start + max_len
            /\ segs' = Append(segs, Segment(text, start + max_len))
            /\ UNCHANGED attempt
       ELSE /\ attempt' = attempt + 1
            /\ UNCHANGED <<start, segs>>
    /\ pc' = "try"
    /\ UNCHANGED <<text, retries, delay, translated, retval, segres>>
    /\ UNCHANGED mainvars

\* Fault: the time.sleep(delay) of the except branch is left out.
RetryNoSleep ==
    /\ log' = Append(log, Event("call_err", 0))
    /\ attempt' = attempt + 1
    /\ pc' = IF attempt + 1 < retries THEN "try" ELSE "segsleep"
    /\ UNCHANGED <<text, retries, delay, start, translated, retval, segs,
                   segres>>
    /\ UNCHANGED mainvars

\* time.sleep(delay), then the next attempt of range(retries), if any.
RetryLater ==
    /\ log' = log \o <<Event("call_err", 0), Event("retry_sleep", delay)>>
    /\ attempt' = attempt + 1
    /\ pc' = IF attempt + 1 < retries THEN "try" ELSE "segsleep"
    /\ UNCHANGED <<text, retries, delay, start, translated, retval, segs,
                   segres>>
    /\ UNCHANGED mainvars

\* Fault: the function returns as soon as a segment has failed for good.
GiveUpAbort(e) ==
    /\ translated' = Accumulate(translated, FailMarker(e.msg))
    /\ segres' = Append(segres, Result("Failed", e.msg, FailMarker(e.msg)))
    /\ log' = Append(log, Event("call_err", 0))
    /\ retval' = Accumulate(translated, FailMarker(e.msg))
    /\ pc' = "ret"
    /\ UNCHANGED <<text, retries, delay, start, attempt, segs>>
    /\ UNCHANGED mainvars

\* translated += the marker; this was the last attempt of range(retries).
GiveUp(e) ==
    /\ translated' = Accumulate(translated, FailMarker(e.msg))
    /\ segres' = Append(segres, Result("Failed", e.msg, FailMarker(e.msg)))
    /\ log' = Append(log, Event("call_err", 0))
    /\ pc' = "segsleep"
    /\ UNCHANGED <<text, retries, delay, start, attempt, retval, segs>>
    /\ UNCHANGED mainvars

\* An attempt that raises while attempts remain.
AttemptFailRetry ==
    /\ pc = "try"
    /\ AttemptsRemain(attempt, retries)
    /\ \E e \in ProviderErrors : IF Caught(e) THEN RetryLater ELSE Propagate

\* An attempt that raises when none remain.
AttemptFailFinal ==
    /\ pc = "try"
    /\ ~AttemptsRemain(attempt, retries)
    /\ \E e \in ProviderErrors : IF Caught(e) THEN GiveUp(e) ELSE Propagate

\* Fault: the sleep after the segment sits in the try body, so a failed
\* segment is not followed by it.
SegSleepOnSuccess ==
    /\ pc = "segsleep"
    /\ log' = IF segres # <<>> /\ segres[Len(segres)].kind = "Failed"
              THEN log
              ELSE Append(log, Event("seg_sleep", delay))
    /\ IF start + max_len < Len(text)
       THEN /\ start' = start + max_len
            /\ attempt' = 0
            /\ segs' = Append(segs, Segment(text, start + max_len))
            /\ pc' = SegmentEntry(retries)
            /\ UNCHANGED retval
       ELSE /\ pc' = "ret"
            /\ retval' = translated
            /\ UNCHANGED <<start, attempt, segs>>
    /\ UNCHANGED <<text, retries, delay, translated, segres>>
    /\ UNCHANGED mainvars

\* time.sleep(delay) after the segment, then the next segment or the return.
SegSleep ==
    /\ pc = "segsleep"
    /\ log' = Append(log, Event("seg_sleep", delay))
    /\ IF start + max_len < Len(text)
       THEN /\ start' = start + max_len
            /\ attempt' = 0
            /\ segs' = Append(segs, Segment(text, start + max_len))
            /\ pc' = SegmentEntry(retries)
            /\ UNCHANGED retval
       ELSE /\ pc' = "ret"
            /\ retval' = translated
            /\ UNCHANGED <<start, attempt, segs>>
    /\ UNCHANGED <<text, retries, delay, translated, segres>>
    /\ UNCHANGED mainvars

(***************************************************************************)
(* The uploaded table.                                                     *)
(***************************************************************************)
\* df when load_file returned None or was not called: no table
NoDf == [c \in {} |-> <<>>]

\* Raw cell values: a missing cell (NaN) or a string.
Null == [t |-> "null"]
Str(s) == [t |-> "str", v |-> s]

\* str(cell), as df[col].astype(str) applies it: NaN becomes "nan".
astype_str(cell) == IF cell.t = "null" THEN <<"n", "a", "n">> ELSE cell.v

\* f"{col}_JP"
JP(col) == col \o "_JP"

\* The cell texts of the model: empty, one segment, two segments.
ShortText == <<"a">>
LongText == [i \in 1..(max_len + 1) |-> <<"a", "b", "c", "d", "e">>[((i - 1) % 5) + 1]]
CellValues == {Null, Str(<<>>), Str(ShortText), Str(LongText)}

SeqsUpTo(S, n) == UNION {[1..k -> S] : k \in 0..n}

\* Tables with the columns "A" and "A_JP" (a table this program wrote
\* earlier has such a pair); at most one cell of "A" is not the short text.
Tables ==
    {[c \in {"A", "A_JP"} |->
         IF c = "A" THEN a ELSE [i \in 1..Len(a) |-> Str(<<"b">>)]] :
       a \in {x \in SeqsUpTo(CellValues, MaxRows) :
                 Cardinality({i \in 1..Len(x) : x[i] # Str(ShortText)}) <= 1}}

\* What the multiselect can return: distinct columns of df, in the order
\* they were picked.
Selections(d) ==
    {q \in SeqsUpTo(DOMAIN d, Cardinality(DOMAIN d)) :
        \A i, j \in 1..Len(q) : i # j => q[i] # q[j]}

\* number_input(min_value=0.5, max_value=5.0, value=1.0)
SleepTimes == {10, 25}

(***************************************************************************)
(* main()                                                                  *)
(***************************************************************************)
IdleFrame ==
    /\ pc = "idle" /\ text = <<>> /\ retries = DefaultRetries
    /\ delay = DefaultDelay /\ start = 0 /\ attempt = 0 /\ translated = <<>>
    /\ retval = <<>> /\ segs = <<>> /\ segres = <<>> /\ log = <<>>

Init ==
    /\ uploaded_file \in BOOLEAN
    /\ df \in IF uploaded_file THEN Tables \cup {NoDf} ELSE {NoDf}
    /\ df0 = df
    /\ columns_to_translate \in Selections(df)
    /\ sleep_time \in IF columns_to_translate = <<>> THEN {10} ELSE SleepTimes
    /\ button \in IF columns_to_translate = <<>> THEN {FALSE} ELSE BOOLEAN
    /\ mpc = "start" /\ notice = "none"
    /\ ci = 0 /\ cells = <<>> /\ ri = 0 /\ translations = <<>>
    /\ total_tasks = 0 /\ current_task = 0 /\ error_count = 0
    /\ progress = <<>> /\ item_sleeps = <<>> /\ outcomes = <<>>
    /\ IdleFrame

\* The returns of main() before the batch: no file, a file that did not
\* load, no column selected, the button not pressed.
MainReturn ==
    /\ mpc = "start"
    /\ \/ ~uploaded_file /\ notice' = "info"
       \/ uploaded_file /\ df = NoDf /\ notice' = "load_error"
       \/ uploaded_file /\ df # NoDf /\ columns_to_translate = <<>>
            /\ notice' = "warning"
       \/ uploaded_file /\ df # NoDf /\ columns_to_translate # <<>>
            /\ ~button /\ notice' = "none"
    /\ mpc' = "returned"
    /\ UNCHANGED <<uploaded_file, df, df0, columns_to_translate, sleep_time, button,
                   ci, cells, ri, translations, total_tasks, current_task,
                   error_count, progress, item_sleeps, outcomes>>
    /\ UNCHANGED stvars

\* len(df)
Rows(d) == Len(d[CHOOSE c \in DOMAIN d : TRUE])

\* Fault: the test `if not columns_to_translate` is left out, so an empty
\* selection goes on into the batch.
StartBatchNoColumnCheck ==
    /\ mpc = "start"
    /\ uploaded_file /\ df # NoDf /\ (button \/ columns_to_translate = <<>>)
    /\ total_tasks' = Rows(df) * Len(columns_to_translate)
    /\ current_task' = 0
    /\ error_count' = 0
    /\ ci' = 1
    /\ mpc' = "col"
    /\ notice' = "spinner"
    /\ UNCHANGED <<uploaded_file, df, df0, columns_to_translate, sleep_time, button,
                   cells, ri, translations, progress, item_sleeps, outcomes>>
    /\ UNCHANGED stvars

\* if st.button(...): the counters are set and the column loop is entered.
StartBatch ==
    /\ mpc = "start"
    /\ uploaded_file /\ df # NoDf /\ columns_to_translate # <<>> /\ button
    /\ total_tasks' = Rows(df) * Len(columns_to_translate)
    /\ current_task' = 0
    /\ error_count' = 0
    /\ ci' = 1
    /\ mpc' = "col"
    /\ notice' = "spinner"
    /\ UNCHANGED <<uploaded_file, df, df0, columns_to_translate, sleep_time, button,
                   cells, ri, translations, progress, item_sleeps, outcomes>>
    /\ UNCHANGED stvars

\* for col in columns_to_translate: translations = []; the cells to iterate
ColBegin ==
    /\ mpc = "col"
    /\ ci <= Len(columns_to_translate)
    /\ translations' = <<>>
    /\ cells' = [i \in 1..Len(df[columns_to_translate[ci]]) |->
                    astype_str(df[columns_to_translate[ci]][i])]
    /\ ri' = 1
    /\ mpc' = "cell"
    /\ UNCHANGED <<uploaded_file, df, df0, columns_to_translate, sleep_time, button,
                   notice, ci, total_tasks, current_task, error_count,
                   progress, item_sleeps, outcomes>>
    /\ UNCHANGED stvars

\* result = safe_translate(translator, cell, dest='ja'): the call
CellCall ==
    /\ mpc = "cell"
    /\ ri <= Len(cells)
    /\ Call(cells[ri], DefaultRetries, DefaultDelay)
    /\ mpc' = "call"
    /\ UNCHANGED <<uploaded_file, df, df0, columns_to_translate, sleep_time, button,
                   notice, ci, cells, ri, translations, total_tasks,
                   current_task, error_count, progress, item_sleeps, outcomes>>

\* if result.startswith(prefix): the failure test of main()
IsFailure(result) == StartsWith(result, FailPrefix)

\* translations.append(result)
Collect(list, result) == Append(list, result)

\* Fault: the bar is set before current_task is incremented.
ReportProgressStale(p, done, total) == Append(p, <<done - 1, total>>)

\* progress.progress(current_task / total_tasks)
ReportProgress(p, done, total) == Append(p, <<done, total>>)

\* Whether a segment of the call exhausted its retries.
HadFailure == \E i \in 1..Len(segres) : segres[i].kind = "Failed"

\* Fault: the failure count goes up by one for every failed segment of the
\* cell.
CellReturnPerSegment ==
    /\ mpc = "call"
    /\ pc = "ret"
    /\ error_count' = error_count
          + Cardinality({i \in 1..Len(segres) : segres[i].kind = "Failed"})
    /\ translations' = Collect(translations, retval)
    /\ current_task' = current_task + 1
    /\ progress' = ReportProgress(progress, current_task + 1, total_tasks)
    /\ item_sleeps' = Append(item_sleeps, sleep_time)
    /\ outcomes' = Append(outcomes,
                     [col |-> columns_to_translate[ci], row |-> ri,
                      text |-> text, result |-> retval,
                      hadFailure |-> HadFailure])
    /\ ri' = ri + 1
    /\ mpc' = "cell"
    /\ pc' = "idle" /\ text' = <<>> /\ retries' = DefaultRetries
    /\ delay' = DefaultDelay /\ start' = 0 /\ attempt' = 0
    /\ translated' = <<>> /\ retval' = <<>> /\ segs' = <<>> /\ segres' = <<>>
    /\ log' = <<>>
    /\ UNCHANGED <<uploaded_file, df, df0, columns_to_translate, sleep_time, button,
                   notice, ci, cells, total_tasks>>

\* The call returns: the failure count, the result list, the progress bar,
\* the sleep.
CellReturn ==
    /\ mpc = "call"
    /\ pc = "ret"
    /\ error_count' = IF IsFailure(retval) THEN error_count + 1 ELSE error_count
    /\ translations' = Collect(translations, retval)
    /\ current_task' = current_task + 1
    /\ progress' = ReportProgress(progress, current_task + 1, total_tasks)
    /\ item_sleeps' = Append(item_sleeps, sleep_time)
    /\ outcomes' = Append(outcomes,
                     [col |-> columns_to_translate[ci], row |-> ri,
                      text |-> text, result |-> retval,
                      hadFailure |-> HadFailure])
    /\ ri' = ri + 1
    /\ mpc' = "cell"
    /\ pc' = "idle" /\ text' = <<>> /\ retries' = DefaultRetries
    /\ delay' = DefaultDelay /\ start' = 0 /\ attempt' = 0
    /\ translated' = <<>> /\ retval' = <<>> /\ segs' = <<>> /\ segres' = <<>>
    /\ log' = <<>>
    /\ UNCHANGED <<uploaded_file, df, df0, columns_to_translate, sleep_time, button,
                   notice, ci, cells, total_tasks>>

\* df[f"{col}_JP"] = translations
SetColumn(d, name, values) ==
    [c \in DOMAIN d \cup {name} |->
        IF c = name THEN [i \in 1..Len(values) |-> Str(values[i])] ELSE d[c]]

\* Fault: a column without translations is not written to the table.
ColEndSkipEmpty ==
    /\ mpc = "cell"
    /\ ri > Len(cells)
    /\ df' = IF translations = <<>> THEN df
             ELSE SetColumn(df, JP(columns_to_translate[ci]), translations)
    /\ ci' = ci + 1
    /\ mpc' = "col"
    /\ UNCHANGED <<uploaded_file, df0, columns_to_translate, sleep_time, button,
                   notice, cells, ri, translations, total_tasks, current_task,
                   error_count, progress, item_sleeps, outcomes>>
    /\ UNCHANGED stvars

\* The end of a column's cells: its translations become a column of df.
ColEnd ==
    /\ mpc = "cell"
    /\ ri > Len(cells)
    /\ df' = SetColumn(df, JP(columns_to_translate[ci]), translations)
    /\ ci' = ci + 1
    /\ mpc' = "col"
    /\ UNCHANGED <<uploaded_file, df0, columns_to_translate, sleep_time, button,
                   notice, cells, ri, translations, total_tasks, current_task,
                   error_count, progress, item_sleeps, outcomes>>
    /\ UNCHANGED stvars

\* The end of the columns: st.success with the failure count.
Finish ==
    /\ mpc = "col"
    /\ ci > Len(columns_to_translate)
    /\ mpc' = "done"
    /\ notice' = "success"
    /\ UNCHANGED <<uploaded_file, df, df0, columns_to_translate, sleep_time, button,
                   ci, cells, ri, translations, total_tasks, current_task,
                   error_count, progress, item_sleeps, outcomes>>
    /\ UNCHANGED stvars

Next ==
    \/ MainReturn
    \/ StartBatch
    \/ ColBegin
    \/ CellCall
    \/ AttemptOk
    \/ AttemptFailRetry
    \/ AttemptFailFinal
    \/ SegSleep
    \/ CellReturn
    \/ ColEnd
    \/ Finish

Spec == Init /\ [][Next]_vars

(***************************************************************************)
(* safe_translate called on its own, with arguments of the caller's        *)
(* choice.                                                                 *)
(***************************************************************************)
\* The texts tried: the first n characters of "abcdeabcde...", up to three
\* segments long.
Texts ==
    {[i \in 1..n |-> <<"a", "b", "c", "d", "e">>[((i - 1) % 5) + 1]] :
        n \in 0..(2 * max_len + 1)}

\* The delay arguments tried.
Delays == {0, 10, 25}

InitST ==
    /\ uploaded_file = FALSE /\ df = NoDf /\ df0 = NoDf
    /\ columns_to_translate = <<>> /\ sleep_time = 10 /\ button = FALSE
    /\ mpc = "off" /\ notice = "none"
    /\ ci = 0 /\ cells = <<>> /\ ri = 0 /\ translations = <<>>
    /\ total_tasks = 0 /\ current_task = 0 /\ error_count = 0
    /\ progress = <<>> /\ item_sleeps = <<>> /\ outcomes = <<>>
    /\ IdleFrame

STCall ==
    /\ mpc = "off"
    /\ \E t \in Texts, r \in 0..MaxRetries, d \in Delays : Call(t, r, d)
    /\ UNCHANGED mainvars

NextST ==
    \/ STCall
    \/ AttemptOk
    \/ AttemptFailRetry
    \/ AttemptFailFinal
    \/ SegSleep

SpecST == InitST /\ [][NextST]_vars

\* Every provider call returns or raises, and the interpreter runs on.
FairSpecST == SpecST /\ WF_vars(NextST)
FairSpec == Spec /\ WF_vars(Next)

(***************************************************************************)
(* Vocabulary of the properties.                                           *)
(***************************************************************************)
RECURSIVE Concat(_)
Concat(ss) == IF ss = <<>> THEN <<>> ELSE Head(ss) \o Concat(Tail(ss))

Contains(s, sub) ==
    \E k \in 0..(Len(s) - Len(sub)) : SubSeq(s, k + 1, k + Len(sub)) = sub

CeilDiv(n, m) == (n + m - 1) \div m

\* The provider calls made for segment i of the call in progress.
CallIdx(i) ==
    {k \in 1..Len(log) : log[k].seg = i /\ log[k].ev \in {"call_ok", "call_err"}}
CallsOf(i) == Cardinality(CallIdx(i))
OksOf(i) == Cardinality({k \in CallIdx(i) : log[k].ev = "call_ok"})
ErrsOf(i) == Cardinality({k \in CallIdx(i) : log[k].ev = "call_err"})

\* Segment i has left its attempt loop.
Finished(i) ==
    \/ i < Len(segs)
    \/ i = Len(segs) /\ pc \in {"segsleep", "ret"}

\* The part of the accumulated output that segment i contributed.
PieceOf(i) == SubSeq(translated, segres[i].from + 1, segres[i].to)

\* The pieces lie end to end and make up the whole accumulated output.
PiecesTile ==
    /\ \A i \in 1..Len(segres) :
          segres[i].from = IF i = 1 THEN 0 ELSE segres[i - 1].to
    /\ Len(translated) = IF segres = <<>> THEN 0 ELSE segres[Len(segres)].to

\* The size of the batch: selected columns x rows.
BatchSize == Len(columns_to_translate) * Rows(df0)

(***************************************************************************)
(* C1: whatever the provider does on each attempt (retries >= 1),          *)
(* safe_translate never lets the provider's exception out: every segment   *)
(* that left its attempt loop has a result, Translated or Failed, and a    *)
(* call in progress always goes on to return.                              *)
(***************************************************************************)
C1_Absorbed ==
    /\ pc # "raised"
    /\ retries >= 1 =>
          \A i \in 1..Len(segs) :
             Finished(i) =>
                /\ i <= Len(segres)
                /\ segres[i].kind \in {"Translated", "Failed"}
    /\ pc = "ret" /\ retries >= 1 => Len(segres) = Len(segs)

C1_NeverPropagates ==
    /\ []C1_Absorbed
    /\ [](pc \in {"try", "segsleep"} => <>(pc = "ret"))

C1_Witness ==
    /\ pc = "ret"
    /\ \E i, j \in 1..Len(segres) :
          /\ segres[i].kind = "Failed"
          /\ segres[j].kind = "Translated" /\ ErrsOf(j) > 0

(***************************************************************************)
(* C2: when the batch is done, error_count is the number of cells of       *)
(* which at least one segment exhausted its retries.                       *)
(***************************************************************************)
C2_FailureCount ==
    mpc = "done" =>
       error_count =
          Cardinality({k \in 1..Len(outcomes) : outcomes[k].hadFailure})

(***************************************************************************)
(* C3: a segment on which every attempt failed (retries >= 1) had exactly  *)
(* retries provider calls, has the result Failed, and contributed exactly  *)
(* one non-empty piece to the output: a failure marker that contains the   *)
(* message of the error.                                                   *)
(***************************************************************************)
C3_AllAttemptsFail ==
    retries >= 1 =>
       /\ PiecesTile
       /\ \A i \in 1..Len(segs) :
             Finished(i) /\ OksOf(i) = 0 =>
                /\ CallsOf(i) = retries
                /\ i <= Len(segres)
                /\ segres[i].kind = "Failed"
                /\ PieceOf(i) # <<>>
                /\ StartsWith(PieceOf(i), <<"[", "HON", "YAKU", "SHITSU", "PAI">>)
                /\ Contains(PieceOf(i), segres[i].text)
                /\ segres[i].text = <<"t", "i", "m", "e", "o", "u", "t">>

C3_Witness ==
    /\ pc = "ret" /\ retries = 2 /\ Len(segs) = 2
    /\ OksOf(1) = 1 /\ OksOf(2) = 0 /\ CallsOf(2) = 2

(***************************************************************************)
(* C4: a segment on which the provider failed k < retries times and then   *)
(* succeeded has the result Translated, contributed exactly the text the   *)
(* provider returned, and had k + 1 provider calls, the success being the  *)
(* last of them.                                                           *)
(***************************************************************************)
C4_SuccessAfterFailures ==
    \A i \in 1..Len(segs) :
       Finished(i) /\ OksOf(i) >= 1 =>
          /\ OksOf(i) = 1
          /\ ErrsOf(i) < retries
          /\ CallsOf(i) = ErrsOf(i) + 1
          /\ \A k \in CallIdx(i) : log[k].ev = "call_ok" => \A m \in CallIdx(i) : m <= k
          /\ i <= Len(segres)
          /\ segres[i].kind = "Translated"
          /\ PiecesTile
          /\ PieceOf(i) = segres[i].text
          /\ segres[i].text \in ProviderTexts(segs[i])

C4_Witness ==
    /\ pc = "ret" /\ retries = 3
    /\ \E i \in 1..Len(segs) : OksOf(i) = 1 /\ ErrsOf(i) = 2

(***************************************************************************)
(* C5: when no provider call of a value failed (retries >= 1), the value   *)
(* returned is the per-segment translations joined in segment order, no    *)
(* segment is Failed, and the provider was called ceil(len(text)/max_len)  *)
(* times.                                                                  *)
(***************************************************************************)
C5_AllSucceed ==
    (/\ pc = "ret" /\ retries >= 1
     /\ \A k \in 1..Len(log) : log[k].ev # "call_err") =>
       /\ Len(segres) = CeilDiv(Len(text), max_len)
       /\ retval = Concat([i \in 1..Len(segres) |-> segres[i].text])
       /\ \A i \in 1..Len(segres) :
             /\ segres[i].kind = "Translated"
             /\ segres[i].text \in
                   ProviderTexts(SubSeq(text, (i - 1) * max_len + 1,
                                        Min(i * max_len, Len(text))))
       /\ ~HadFailure
       /\ Cardinality({k \in 1..Len(log) : log[k].ev = "call_ok"})
             = CeilDiv(Len(text), max_len)

C5_Witness ==
    /\ pc = "ret" /\ retries >= 1 /\ Len(segs) = 3
    /\ \A k \in 1..Len(log) : log[k].ev # "call_err"
    /\ retval = Upper(text)

(***************************************************************************)
(* C6: the empty text returns at once: the value returned is empty, no     *)
(* segment failed, no provider call was made and no sleep was taken.       *)
(***************************************************************************)
C6_EmptyText ==
    pc # "idle" /\ text = <<>> =>
       /\ pc = "ret"
       /\ retval = <<>>
       /\ ~HadFailure
       /\ segs = <<>>
       /\ log = <<>>

C6_Witness == pc = "ret" /\ text = <<>> /\ retries = 3

(***************************************************************************)
(* C7: a batch that has started never crashes and, every provider call     *)
(* returning or raising, reaches the success message with one outcome for  *)
(* every (column, row) cell, whatever fails.                               *)
(***************************************************************************)
C7_AllCellsProcessed ==
    mpc = "done" =>
       /\ Len(outcomes) = BatchSize
       /\ \A c \in 1..Len(columns_to_translate), r \in 1..Rows(df0) :
             LET o == outcomes[(c - 1) * Rows(df0) + r]
             IN  o.col = columns_to_translate[c] /\ o.row = r

C7_BatchCompletes ==
    /\ [](mpc \notin {"crashed", "failed"})
    /\ []C7_AllCellsProcessed
    /\ [](mpc \in {"col", "cell", "call"} => <>(mpc = "done"))

C7_Witness ==
    /\ mpc = "done" /\ Len(outcomes) = 4
    /\ \A k \in 1..Len(outcomes) : outcomes[k].hadFailure

(***************************************************************************)
(* C8: when the batch is done there is exactly one outcome per input       *)
(* value, in input order: the k-th outcome is the translation of the value *)
(* the loaded table holds at the k-th (column, row), and the output column *)
(* of each selected column holds that column's outcomes in row order.      *)
(***************************************************************************)
C8_OneOutcomePerInput ==
    mpc = "done" =>
       /\ Len(outcomes) = BatchSize
       /\ \A c \in 1..Len(columns_to_translate), r \in 1..Rows(df0) :
             LET col == columns_to_translate[c]
                 o == outcomes[(c - 1) * Rows(df0) + r]
             IN  /\ o.col = col /\ o.row = r
                 /\ o.text = astype_str(df0[col][r])
                 /\ JP(col) \in DOMAIN df
                 /\ Len(df[JP(col)]) = Rows(df0)
                 /\ df[JP(col)][r] = Str(o.result)

(***************************************************************************)
(* C9: the progress bar is set once per translated value, the k-th time to *)
(* k out of columns x rows, and so columns x rows times when the batch is  *)
(* done.                                                                   *)
(***************************************************************************)
C9_Progress ==
    /\ Len(progress) = Len(outcomes)
    /\ Len(progress) = current_task
    /\ \A k \in 1..Len(progress) : progress[k] = <<k, BatchSize>>
    /\ mpc = "done" => Len(progress) = BatchSize

C9_Witness ==
    /\ mpc = "done" /\ Len(progress) = 4 /\ progress[4] = <<4, 4>>
    /\ \E j, k \in 1..4 : outcomes[j].hadFailure /\ ~outcomes[k].hadFailure

(***************************************************************************)
(* C10: the segments of a non-empty text partition it: segment i is the    *)
(* characters at offsets [(i-1)*max_len, min(i*max_len, len)) (counting    *)
(* segments from 1), is non-empty and at most max_len long, and the        *)
(* segments joined in order are the text.                                  *)
(***************************************************************************)
C10_Segmentation ==
    pc # "idle" /\ text # <<>> =>
       /\ \A i \in 1..Len(segs) :
             /\ segs[i] = [j \in 1..(Min(i * max_len, Len(text)) - (i - 1) * max_len)
                              |-> text[(i - 1) * max_len + j]]
             /\ segs[i] # <<>>
             /\ Len(segs[i]) <= max_len
       /\ pc = "ret" =>
             /\ Concat(segs) = text
             /\ Len(segs) = CeilDiv(Len(text), max_len)

C10_Witness ==
    /\ pc = "ret" /\ Len(segs) = 3
    /\ Len(segs[3]) < max_len /\ Len(segs[1]) = max_len

(***************************************************************************)
(* Vocabulary of the properties about sleeps.                              *)
(***************************************************************************)
\* The sleeps of the call in progress that belong to segment i.
SegSleepIdx(i) ==
    {k \in 1..Len(log) : log[k].seg = i /\ log[k].ev = "seg_sleep"}
RetrySleepIdx(i) ==
    {k \in 1..Len(log) : log[k].seg = i /\ log[k].ev = "retry_sleep"}

\* Segment i has had the sleep that follows its attempt loop.
Slept(i) ==
    \/ i < Len(segs)
    \/ i = Len(segs) /\ pc = "ret"

(***************************************************************************)
(* C11: each segment of a value is followed by exactly one sleep, whether  *)
(* it ended Translated or Failed; the sleep comes after all the segment's  *)
(* attempts and retry sleeps and before every attempt of the next segment. *)
(***************************************************************************)
C11_SleepPerSegment ==
    \A i \in 1..Len(segs) :
       /\ Cardinality(SegSleepIdx(i)) = IF Slept(i) THEN 1 ELSE 0
       /\ \A s \in SegSleepIdx(i) :
             /\ \A k \in CallIdx(i) \cup RetrySleepIdx(i) : k < s
             /\ \A k \in CallIdx(i + 1) : s < k

C11_Witness ==
    /\ pc = "ret" /\ Len(segs) = 2 /\ Len(segres) = 2
    /\ segres[1].kind = "Failed" /\ segres[2].kind = "Translated"
    /\ Cardinality(SegSleepIdx(1)) = 1 /\ Cardinality(SegSleepIdx(2)) = 1

(***************************************************************************)
(* C12: within a segment (retries >= 1) a retry sleep directly follows     *)
(* each failed attempt that has attempts remaining and is directly         *)
(* followed by the next attempt; none follows a success or the last        *)
(* failed attempt: f failed attempts make min(f, retries - 1) retry sleeps.*)
(***************************************************************************)
C12_RetrySleeps ==
    retries >= 1 =>
       /\ \A i \in 1..Len(segs) :
             Cardinality(RetrySleepIdx(i)) = Min(ErrsOf(i), retries - 1)
       /\ \A k \in 1..Len(log) :
             /\ log[k].ev = "retry_sleep" =>
                   /\ k > 1
                   /\ log[k - 1].ev = "call_err" /\ log[k - 1].seg = log[k].seg
                   /\ k < Len(log) =>
                         /\ log[k + 1].ev \in {"call_ok", "call_err"}
                         /\ log[k + 1].seg = log[k].seg
             /\ log[k].ev = "call_err" /\ k < Len(log) =>
                   log[k + 1].ev = IF Cardinality({m \in CallIdx(log[k].seg) : m <= k})
                                        < retries
                                   THEN "retry_sleep" ELSE "seg_sleep"
             /\ log[k].ev = "call_ok" /\ k < Len(log) =>
                   log[k + 1].ev = "seg_sleep"

C12_Witness ==
    /\ pc = "ret" /\ retries = 3 /\ Len(segs) = 2
    /\ ErrsOf(1) = 3 /\ Cardinality(RetrySleepIdx(1)) = 2
    /\ ErrsOf(2) = 1 /\ OksOf(2) = 1 /\ Cardinality(RetrySleepIdx(2)) = 1

(***************************************************************************)
(* C13: provider calls are made one at a time and in (column, row,         *)
(* segment) order: a call belongs to the one cell in progress, every cell  *)
(* before it has its outcome and no later cell has one, and within the     *)
(* cell every attempt of a segment comes after the earlier segment's last  *)
(* attempt and sleep.                                                      *)
(***************************************************************************)
C13_InOrder ==
    /\ pc = "idle" => log = <<>>
    /\ pc # "idle" =>
          /\ mpc = "call"
          /\ ci \in 1..Len(columns_to_translate)
          /\ ri \in 1..Rows(df0)
          /\ text = cells[ri]
          /\ Len(outcomes) = (ci - 1) * Rows(df0) + (ri - 1)
    /\ \A k \in 1..Len(outcomes) :
          /\ outcomes[k].col = columns_to_translate[((k - 1) \div Rows(df0)) + 1]
          /\ outcomes[k].row = ((k - 1) % Rows(df0)) + 1
    /\ \A j, k \in 1..Len(log) : j < k => log[j].seg <= log[k].seg
    /\ \A i \in 1..Len(segs) :
          \A k \in CallIdx(i + 1) :
             \E s \in SegSleepIdx(i) :
                s < k /\ \A m \in CallIdx(i) : m < s

C13_OneAtATime ==
    Cardinality({k \in 1..Len(log') : log'[k].ev \in {"call_ok", "call_err"}})
       <= Cardinality({k \in 1..Len(log) : log[k].ev \in {"call_ok", "call_err"}}) + 1

C13_Sequential == []C13_InOrder /\ [][C13_OneAtATime]_vars

C13_Witness ==
    /\ mpc = "call" /\ pc = "try" /\ ci = 2 /\ ri = 2
    /\ Len(segs) = 2 /\ ErrsOf(2) = 1
    /\ outcomes[1].hadFailure /\ ~outcomes[2].hadFailure

(***************************************************************************)
(* C14: a null/missing cell is coerced to the empty text before it is      *)
(* translated, so its outcome is empty and not failed and no provider call *)
(* is made for it.  The statement as the specification words it:           *)
(***************************************************************************)
IsNullCell(col, row) ==
    col \in DOMAIN df0 /\ row \in 1..Len(df0[col]) /\ df0[col][row] = Null

C14_NullIsEmpty ==
    /\ \A k \in 1..Len(outcomes) :
          (outcomes[k].col = "A" /\ IsNullCell("A", outcomes[k].row)) =>
             /\ outcomes[k].text = <<>>
             /\ outcomes[k].result = <<>>
             /\ ~outcomes[k].hadFailure
    /\ (mpc = "call" /\ ci = 1 /\ columns_to_translate[1] = "A"
          /\ IsNullCell("A", ri)) => log = <<>>

(***************************************************************************)
(* C15: a running batch can be cancelled between items: whenever the batch *)
(* stands before an item that is still to be translated, it is able to     *)
(* stop there, leaving the loop without a further provider call and with   *)
(* the outcomes completed so far unchanged.  The statement as the          *)
(* specification words it:                                                 *)
(***************************************************************************)
BetweenItems == mpc = "cell" /\ ri <= Len(cells)

StopsHere ==
    /\ mpc' \notin {"col", "cell", "call"}
    /\ outcomes' = outcomes
    /\ log' = log

C15_Cancellable == BetweenItems => ENABLED (Next /\ StopsHere)

(***************************************************************************)
(* C16: with a loaded table and no column selected, main() reports the     *)
(* empty selection and returns before any work: the batch is never         *)
(* entered, no provider call is made, no progress is reported, nothing is  *)
(* slept and the table gets no new column.                                 *)
(***************************************************************************)
C16_NoColumnsNoWork ==
    (df0 # NoDf /\ columns_to_translate = <<>>) =>
       /\ mpc \in {"start", "returned"}
       /\ mpc = "returned" => notice = "warning"
       /\ mpc = "start" => notice = "none"
       /\ pc = "idle" /\ log = <<>>
       /\ progress = <<>> /\ item_sleeps = <<>> /\ outcomes = <<>>
       /\ total_tasks = 0 /\ current_task = 0 /\ error_count = 0
       /\ df = df0

C16_Witness ==
    /\ df0 # NoDf /\ columns_to_translate = <<>>
    /\ Len(df0["A"]) = MaxRows
    /\ mpc = "returned" /\ notice = "warning"

(***************************************************************************)
(* C17: a batch over a table without rows, with at least one column        *)
(* selected, runs to the success message: no provider call, no progress    *)
(* report, no failure counted, and every selected column gets an empty     *)
(* column of translations.                                                 *)
(***************************************************************************)
ZeroRowBatch ==
    /\ uploaded_file /\ df0 # NoDf /\ Rows(df0) = 0
    /\ columns_to_translate # <<>> /\ button

C17_ZeroRowsInv ==
    ZeroRowBatch =>
       /\ mpc \in {"start", "col", "cell", "done"}
       /\ pc = "idle" /\ log = <<>>
       /\ progress = <<>> /\ item_sleeps = <<>> /\ outcomes = <<>>
       /\ total_tasks = 0 /\ current_task = 0 /\ error_count = 0
       /\ mpc = "done" =>
             /\ notice = "success"
             /\ \A i \in 1..Len(columns_to_translate) :
                   /\ JP(columns_to_translate[i]) \in DOMAIN df
                   /\ df[JP(columns_to_translate[i])] = <<>>

C17_ZeroRows == []C17_ZeroRowsInv /\ (ZeroRowBatch ~> mpc = "done")

C17_Witness ==
    /\ ZeroRowBatch /\ mpc = "done" /\ notice = "success"
    /\ columns_to_translate = <<"A_JP", "A">>
    /\ DOMAIN df = {"A", "A_JP", "A_JP_JP"}

(***************************************************************************)
(* C18: in a batch every suspension inside the translation of a value, the *)
(* sleep between two attempts and the sleep after a segment, lasts the     *)
(* delay the user configured (sleep_time).  The statement as the           *)
(* specification words it:                                                 *)
(***************************************************************************)
C18_ConfiguredDelay ==
    /\ mpc = "call" => delay = sleep_time
    /\ \A k \in 1..Len(log) :
          log[k].ev \in {"retry_sleep", "seg_sleep"} => log[k].d = sleep_time

(***************************************************************************)
(* C19: with at least one attempt allowed, the accumulated text is at all  *)
(* times the pieces of the finished segments joined in order, the piece of *)
(* a segment being its translation if an attempt succeeded and its failure *)
(* marker if all attempts failed; an attempt that failed and is retried    *)
(* adds nothing; and the returned text has one piece for every one of the  *)
(* n segments, those after a failed segment included.                      *)
(***************************************************************************)
C19_Piece(i) ==
    IF segres[i].kind = "Translated"
    THEN segres[i].text
    ELSE <<"[", "HON", "YAKU", "SHITSU", "PAI", ":", " ">>
            \o segres[i].text \o <<"]">>

C19_Joined == Concat([i \in 1..Len(segres) |-> C19_Piece(i)])

C19_InOrderPieces ==
    (pc # "idle" /\ retries >= 1) =>
       /\ Len(segres) = Cardinality({i \in 1..Len(segs) : Finished(i)})
       /\ translated = C19_Joined
       /\ \A i \in 1..Len(segres) :
             \/ /\ segres[i].kind = "Translated"
                /\ OksOf(i) = 1
                /\ segres[i].text \in ProviderTexts(segs[i])
             \/ /\ segres[i].kind = "Failed"
                /\ OksOf(i) = 0 /\ ErrsOf(i) = retries
       /\ pc = "ret" =>
             /\ Len(segres) = CeilDiv(Len(text), max_len)
             /\ Len(segs) = Len(segres)
             /\ retval = C19_Joined
             /\ \A i \in 1..Len(segs) : CallsOf(i) >= 1

C19_Witness ==
    /\ pc = "ret" /\ Len(segres) = 3
    /\ segres[1].kind = "Failed"
    /\ segres[2].kind = "Translated" /\ ErrsOf(2) = 1
    /\ segres[3].kind = "Translated" /\ ErrsOf(3) = 0
    /\ Len(retval) > Len(text)

(***************************************************************************)
(* C20: throughout a batch 0 <= error_count <= current_task <= total_tasks *)
(* with total_tasks = rows x selected columns; the finished cell raises    *)
(* current_task by one and error_count by at most one, however many of its *)
(* segments failed, and neither counter ever goes down.                    *)
(***************************************************************************)
C20_Bounds ==
    /\ 0 <= error_count
    /\ error_count <= current_task
    /\ current_task <= total_tasks
    /\ current_task = Len(outcomes)
    /\ mpc \in {"col", "cell", "call", "done"} => total_tasks = BatchSize

C20_Steps ==
    /\ current_task' \in {current_task, current_task + 1}
    /\ error_count' \in {error_count, error_count + 1}
    /\ error_count' # error_count => current_task' = current_task + 1
    /\ mpc # "start" => total_tasks' = total_tasks

=============================================================================
